---- MODULE Spec2Model ----
(***************************************************************************)
(* Model of the MaxAiCalender action pipeline:                             *)
(*   ui.py            one button press = call_azure_openai, then           *)
(*                    handle_calendar_action, then st.rerun()              *)
(*   azure_api.py     call_azure_openai / parse_azure_response             *)
(*   user_event_handler.py   dispatcher and the four calendar handlers     *)
(*   google_oauth.py  session credentials, get_calendar_service/_id        *)
(*                                                                         *)
(* Text is a sequence of one-character strings, so that lower(), strip()   *)
(* and the "in" substring test are computed.  An ISO-8601 string is the    *)
(* record of what is written in it (date, clock, offset, layout); a        *)
(* datetime is the record Python keeps (no layout).  Clock values are      *)
(* seconds of the day, offsets are minutes east of UTC.                    *)
(***************************************************************************)
EXTENDS Integers, Sequences, FiniteSets, TLC

\* ---------------------------------------------------------------- bounds
\* event ids the remote calendar can hold: 1..MaxEvents
MaxEvents == 3
\* last day number (days are counted from an arbitrary reference date)
MaxDay == 2

\* ------------------------------------------------------- program constants
\* pytz.timezone("Asia/Kolkata"): +05:30, in minutes
IST == 330
\* seconds per day / per hour, as timedelta(days=1) / timedelta(hours=1)
DaySecs == 86400
HourSecs == 3600
\* datetime.max.time() is 23:59:59.999999
MaxTimeSec == 86399
MaxTimeMicro == 999999
\* marker for "no tzinfo" (a naive datetime, an ISO string without offset)
NoOffset == 9999

\* ------------------------------------------------------------------- text
LowerChar(c) ==
  CASE c = "A" -> "a" [] c = "L" -> "l" [] c = "E" -> "e" [] c = "V" -> "v"
    [] c = "N" -> "n" [] c = "T" -> "t" [] c = "S" -> "s" [] c = "M" -> "m"
    [] c = "Y" -> "y" [] c = "D" -> "d"
    [] OTHER -> c

\* str.lower()
Lower(s) == [i \in 1..Len(s) |-> LowerChar(s[i])]

\* needle in hay (Python substring test)
Contains(hay, needle) ==
  \E i \in 0..(Len(hay) - Len(needle)) :
     \A j \in 1..Len(needle) : hay[i + j] = needle[j]

IsSpace(c) == c = " "

RECURSIVE LStrip(_)
LStrip(s) == IF s # <<>> /\ IsSpace(Head(s)) THEN LStrip(Tail(s)) ELSE s

RECURSIVE RStrip(_)
RStrip(s) ==
  IF s # <<>> /\ IsSpace(s[Len(s)]) THEN RStrip(SubSeq(s, 1, Len(s) - 1)) ELSE s

\* str.strip()
Strip(s) == RStrip(LStrip(s))

\* the two keywords of delete_event
KwAllEvents == <<"a","l","l"," ","e","v","e","n","t","s">>
KwAllMyEvents == <<"a","l","l"," ","m","y"," ","e","v","e","n","t","s">>

\* a dict value that is a string, or is not there (absent key / None)
Str(s) == [has |-> TRUE, text |-> s]
NoStr == [has |-> FALSE, text |-> <<>>]
\* Python truthiness of such a value
Truthy(v) == v.has /\ v.text # <<>>

\* ------------------------------------------------------ ISO strings, datetimes
\* an ISO-8601 string: layout "T" is what isoformat() writes, "sp" has a
\* space instead of the T, "date" is a bare date (no clock, no offset)
Iso(day, sec, us, off, form) ==
  [kind |-> "ts", day |-> day, sec |-> sec, us |-> us, off |-> off, form |-> form]
\* the key is absent or None
NoTime == [kind |-> "absent", day |-> 0, sec |-> 0, us |-> 0, off |-> NoOffset, form |-> "T"]
\* a non-empty string that datetime.fromisoformat rejects
BadTime == [kind |-> "invalid", day |-> 0, sec |-> 0, us |-> 0, off |-> NoOffset, form |-> "T"]

\* "not start_time" is false for every non-empty string, parseable or not
TimeTruthy(s) == s.kind # "absent"

\* datetime.fromisoformat succeeds
Parses(s) == s.kind = "ts"

DateTime(day, sec, us, off) == [day |-> day, sec |-> sec, us |-> us, off |-> off]

\* datetime.fromisoformat(s), for a string it accepts: the layout is lost
fromisoformat(s) == DateTime(s.day, s.sec, s.us, s.off)

\* dt.isoformat(): always the "T" layout
isoformat(dt) == Iso(dt.day, dt.sec, dt.us, dt.off, "T")

\* dt + timedelta(seconds=n)
PlusSeconds(dt, n) ==
  LET total == dt.day * DaySecs + dt.sec + n
  IN  DateTime(total \div DaySecs, total % DaySecs, dt.us, dt.off)

\* dt.astimezone(tz) on a host whose local offset is host: a naive datetime
\* is taken to be host-local time
astimezone(dt, tz, host) ==
  LET src == IF dt.off = NoOffset THEN host ELSE dt.off
      total == dt.day * DaySecs + dt.sec + (tz - src) * 60
  IN  DateTime(total \div DaySecs, total % DaySecs, dt.us, tz)

\* datetime.combine(date, time): naive
combine(day, sec, us) == DateTime(day, sec, us, NoOffset)

\* dt.replace(tzinfo=...)
replace_tzinfo(dt, off) == DateTime(dt.day, dt.sec, dt.us, off)

\* datetime.now(IST).date() when the clock reads utcNow (seconds, UTC)
TodayIST(utcNow) == (utcNow + IST * 60) \div DaySecs

\* aware - aware (elapsed seconds); naive - naive (wall-clock seconds)
Minus(a, b) ==
  LET oa == IF a.off = NoOffset THEN 0 ELSE a.off
      ob == IF b.off = NoOffset THEN 0 ELSE b.off
  IN  (a.day * DaySecs + a.sec - oa * 60) - (b.day * DaySecs + b.sec - ob * 60)

\* Python refuses to subtract a naive from an aware datetime
CanSubtract(a, b) == (a.off = NoOffset) <=> (b.off = NoOffset)

\* ----------------------------------------------------------------- Intent
\* the "event" object of an Intent; a key that is not there is NoStr / NoTime
Event(summary, start, end, newStart, newEnd) ==
  [summary |-> summary, start_time |-> start, end_time |-> end,
   new_start_time |-> newStart, new_end_time |-> newEnd,
   description |-> NoStr, content |-> NoStr]

\* {} : what params.get("event", {}) yields when there is no "event" key
EmptyEvent == Event(NoStr, NoTime, NoTime, NoTime, NoTime)

\* a decoded JSON value handed to the dispatcher.  shape "dict" is a JSON
\* object; "none" is null; "list" is an empty array; "number" is a non-zero
\* number.  action is "" when the object has no "action" key.
Params(shape, hasAction, action, content, event) ==
  [shape |-> shape, hasAction |-> hasAction, action |-> action,
   content |-> content, event |-> event]

Intent(action, event) == Params("dict", TRUE, action, NoStr, event)
\* {"action": a, "content": c}: content sits at the top level
ContentIntent(action, text) == Params("dict", TRUE, action, Str(text), EmptyEvent)
NoParams == Params("none", FALSE, "", NoStr, EmptyEvent)

PlaceholderText ==
  <<"R","e","c","e","i","v","e","d"," ","a","n"," ","e","m","p","t","y"," ",
    "r","e","s","p","o","n","s","e"," ","f","r","o","m"," ","t","h","e"," ",
    "a","s","s","i","s","t","a","n","t",".">>
ParsingErrorText ==
  <<"R","e","s","p","o","n","s","e"," ","p","a","r","s","i","n","g"," ",
    "e","r","r","o","r",".">>
\* str(e): some diagnostic text of the exception
Diagnostic == <<"e","x","c">>

\* ------------------------------------------------------------- azure_api.py
\* What comes back from requests.post:
\*   transport  "ok" | "conn" (RequestException) | "http" (raise_for_status)
\*   body       "notjson" | "array" (valid JSON, not an object) | "object"
\*   choices    "absent" | "empty" | "one"
\*   tool       "none"     no tool_calls (or an empty list)
\*              "notype"   tool_calls[0] has no "type" key
\*              "other"    tool_calls[0]["type"] is not "function"
\*              "badargs"  the arguments string is not JSON
\*              "args"     the arguments string decodes to args
\*   content    the message's "content": hasContent is FALSE when the key is
\*              missing, contentNull when it is JSON null
Response(transport, body, choices, tool, args, hasContent, contentNull, content) ==
  [transport |-> transport, body |-> body, choices |-> choices, tool |-> tool,
   args |-> args, hasContent |-> hasContent, contentNull |-> contentNull,
   content |-> content]

\* result of a Python call: a returned value, or an exception leaving it
Returned(v) == [raised |-> FALSE, value |-> v]
Raised == [raised |-> TRUE, value |-> NoParams]

\* a variant that forwards the stripped text as it is
fallback_content_stripped_only(message) == Strip(message)

\* message.strip() or "Received an empty response from the assistant."
fallback_content(message) ==
  IF Strip(message) # <<>> THEN Strip(message) ELSE PlaceholderText

parse_azure_response(r) ==
  IF r.body = "notjson" THEN Returned(ContentIntent("error", ParsingErrorText))
  ELSE IF r.body = "array" THEN Raised                \* list has no .get
  ELSE IF r.choices = "empty" THEN Returned(ContentIntent("error", ParsingErrorText))
  ELSE LET msgPresent == r.choices = "one"
           tool == IF msgPresent THEN r.tool ELSE "none"
       IN  IF tool = "notype" THEN Returned(ContentIntent("error", ParsingErrorText))
           ELSE IF tool = "badargs" THEN Returned(ContentIntent("error", ParsingErrorText))
           ELSE IF tool = "args" THEN Returned(r.args)
           ELSE \* fallback to message content
                IF msgPresent /\ r.hasContent /\ r.contentNull THEN Raised  \* None.strip()
                ELSE LET message == IF msgPresent /\ r.hasContent THEN r.content ELSE <<>>
                     IN  Returned(ContentIntent("message", fallback_content(message)))

call_azure_openai(r) ==
  IF r.transport # "ok" THEN ContentIntent("error", Diagnostic)
  ELSE LET p == parse_azure_response(r)
       IN  IF p.raised THEN ContentIntent("error", Diagnostic) ELSE p.value

\* ------------------------------------------------- the remote calendar service
EventIds == 1..MaxEvents

TitleStandup == <<"s","t","a","n","d","u","p">>
LocationRoom == <<"r","o","o","m">>

\* An event record as events().list returns it.  start/end are the
\* "dateTime" strings; an all-day event has none (NoTime).
EventRecord(id, start, end) ==
  [id |-> id, summary |-> TitleStandup, start |-> start, end |-> end,
   startTz |-> "Asia/Kolkata", endTz |-> "Asia/Kolkata",
   description |-> Str(<<"d">>), location |-> Str(LocationRoom)]

\* What the calendar holds under each id: 1 is a one-hour meeting at 15:00
\* +05:30, 2 an all-day event, 3 a 90-minute meeting at 09:30:15 -05:00 that
\* ends past midnight UTC, any further id a 30-minute meeting at 23:45 +05:30.
RemoteEvent(id) ==
  CASE id = 1 -> EventRecord(1, Iso(0, 15 * HourSecs, 0, IST, "T"),
                                Iso(0, 16 * HourSecs, 0, IST, "T"))
    [] id = 2 -> EventRecord(2, NoTime, NoTime)
    [] id = 3 -> EventRecord(3, Iso(1, 9 * HourSecs + 1815, 0, -300, "T"),
                                Iso(1, 11 * HourSecs + 15, 0, -300, "T"))
    [] OTHER  -> EventRecord(id, Iso(1, 23 * HourSecs + 2700, 0, IST, "T"),
                                 Iso(2, 900, 0, IST, "T"))

\* the body of an insert: no id, no location
NewEventBody(summary, start, end, description) ==
  [id |-> 0, summary |-> summary, start |-> start, end |-> end,
   startTz |-> "Asia/Kolkata", endTz |-> "Asia/Kolkata",
   description |-> description, location |-> NoStr]
NoBody == NewEventBody(<<>>, NoTime, NoTime, NoStr)

\* One call on service.events(); ok is whether execute() returned.
ListCall(timeMin, timeMax, q, orderBy, maxResults, ok) ==
  [op |-> "list", timeMin |-> timeMin, timeMax |-> timeMax, q |-> q,
   orderBy |-> orderBy, maxResults |-> maxResults, eventId |-> 0,
   body |-> NoBody, ok |-> ok]
InsertCall(body, ok) ==
  [op |-> "insert", timeMin |-> NoTime, timeMax |-> NoTime, q |-> NoStr,
   orderBy |-> FALSE, maxResults |-> 0, eventId |-> 0, body |-> body, ok |-> ok]
UpdateCall(id, body, ok) ==
  [op |-> "update", timeMin |-> NoTime, timeMax |-> NoTime, q |-> NoStr,
   orderBy |-> FALSE, maxResults |-> 0, eventId |-> id, body |-> body, ok |-> ok]
DeleteCall(id, ok) ==
  [op |-> "delete", timeMin |-> NoTime, timeMax |-> NoTime, q |-> NoStr,
   orderBy |-> FALSE, maxResults |-> 0, eventId |-> id, body |-> NoBody, ok |-> ok]

\* The calendar after a sequence of calls: an event whose delete call
\* returned is gone, a successful insert takes the lowest free id (an event
\* that finds no free id is not tracked).
AfterCalls(held, done) ==
  LET deleted == { done[i].eventId : i \in { j \in 1..Len(done) :
                       done[j].op = "delete" /\ done[j].ok } }
      free == EventIds \ held
      inserted == IF (\E i \in 1..Len(done) : done[i].op = "insert" /\ done[i].ok)
                     /\ free # {}
                  THEN {CHOOSE x \in free : \A y \in free : x <= y} ELSE {}
  IN  (held \ deleted) \cup inserted

\* How the service answers during one dispatch: listOk and items (the ids
\* of the events the list query returns, in order), failAt (which delete
\* call raises, 0 for none), writeOk (whether insert/update returns).
Answers(listOk, items, failAt, writeOk) ==
  [listOk |-> listOk, items |-> items, failAt |-> failAt, writeOk |-> writeOk]

\* the service is never reached
NoAnswers == Answers(FALSE, <<>>, 0, FALSE)

\* ------------------------------------------------------------ status reports
\* st.info / st.success / st.warning / st.error / st.write, by message
\* template: kind names the template, n / fields / text its parameters.
Report(level, kind, n, fields, text) ==
  [level |-> level, kind |-> kind, n |-> n, fields |-> fields, text |-> text]
Say(level, kind) == Report(level, kind, 0, <<>>, <<>>)

\* What running a handler did: the calls it issued, what it reported, and
\* whether an exception left it; listed
\* is what the list query returned (event ids, in order).
Outcome(calls, reports, raised, listed) ==
  [calls |-> calls, reports |-> reports, raised |-> raised, listed |-> listed]
\* a handler that returns after reporting, without any call
Only(report) == Outcome(<<>>, <<report>>, FALSE, <<>>)
\* an exception leaves the handler before any call
Throws == Outcome(<<>>, <<>>, TRUE, <<>>)

\* --------------------------------------------------- user_event_handler.py
DefaultErrorText ==
  <<"A","n"," ","e","r","r","o","r"," ","o","c","c","u","r","r","e","d">>
DefaultDescription ==
  <<"C","r","e","a","t","e","d"," ","b","y"," ","A","I"," ","C","a","l","e","n",
    "d","a","r"," ","A","s","s","i","s","t","a","n","t">>

handle_message(event_data) ==
  LET content == Strip(event_data.content.text)     \* .get("content", "")
  IN  IF content # <<>>
      THEN Only(Report("info", "assistant", 0, <<>>, content))
      ELSE Only(Say("warning", "empty_response"))

handle_error(event_data) ==
  Only(Report("error", "error_content", 0, <<>>,
              IF event_data.content.has THEN event_data.content.text
              ELSE DefaultErrorText))

\* a variant whose missing end_time is a day after start_time
find_end_time_next_day(event_data) ==
  IF event_data.end_time.kind # "absent" THEN event_data.end_time
  ELSE IF ~Parses(event_data.start_time) THEN event_data.start_time
  ELSE LET dt == PlusSeconds(fromisoformat(event_data.start_time), DaySecs)
       IN  Iso(dt.day, dt.sec, dt.us, dt.off, event_data.start_time.form)

\* event_data.get("end_time", start_time)
find_end_time(event_data) ==
  IF event_data.end_time.kind = "absent" THEN event_data.start_time
  ELSE event_data.end_time

find_events(event_data, host, ans) ==
  LET start_time == event_data.start_time
      end_time == find_end_time(event_data)
  IN  IF ~TimeTruthy(start_time) THEN Only(Say("warning", "need_start"))
      ELSE IF ~Parses(start_time) \/ ~Parses(end_time) THEN Throws
      ELSE
        LET s == isoformat(astimezone(fromisoformat(start_time), IST, host))
            t == isoformat(astimezone(fromisoformat(end_time), IST, host))
            call == ListCall(s, t, NoStr, TRUE, 0, ans.listOk)
        IN  IF ~ans.listOk
            THEN Outcome(<<call>>, <<Say("error", "find_failed")>>, FALSE, <<>>)
            ELSE IF ans.items # <<>>
            THEN Outcome(<<call>>,
                         <<Say("write", "found")>> \o
                         [i \in 1..Len(ans.items) |->
                            Report("write", "found_item", ans.items[i], <<>>,
                                   RemoteEvent(ans.items[i]).summary)],
                         FALSE, ans.items)
            ELSE Outcome(<<call>>, <<Say("info", "none_found")>>, FALSE, <<>>)

\* a variant that forgets start_time among the required fields
create_missing_fields_summary_only(event_data) ==
  IF ~Truthy(event_data.summary) THEN <<"summary">> ELSE <<>>

\* [field for field in required_fields if not event_data.get(field)]
create_missing_fields(event_data) ==
  (IF ~TimeTruthy(event_data.start_time) THEN <<"start_time">> ELSE <<>>) \o
  (IF ~Truthy(event_data.summary) THEN <<"summary">> ELSE <<>>)

\* end_time when the Intent has none: one hour after the start
create_default_end(start_time_iso) ==
  isoformat(PlusSeconds(fromisoformat(start_time_iso), HourSecs))

create_event(event_data, ans) ==
  LET missing_fields == create_missing_fields(event_data)
      start_time_iso == event_data.start_time
  IN  IF missing_fields # <<>>
      THEN Only(Report("warning", "missing_fields", 0, missing_fields, <<>>))
      ELSE IF ~TimeTruthy(event_data.end_time) /\ ~Parses(start_time_iso) THEN Throws
      ELSE
        LET end_time_iso ==
              IF ~TimeTruthy(event_data.end_time)
              THEN create_default_end(start_time_iso)
              ELSE event_data.end_time
            event == NewEventBody(event_data.summary.text, start_time_iso, end_time_iso,
                                  IF event_data.description.has THEN event_data.description
                                  ELSE Str(DefaultDescription))
            call == InsertCall(event, ans.writeOk)
        IN  IF ans.writeOk
            THEN Outcome(<<call>>,
                         <<Report("success", "created", 0, <<>>, event.summary)>>,
                         FALSE, <<>>)
            ELSE Outcome(<<call>>, <<Say("error", "create_failed")>>, FALSE, <<>>)

\* a variant that compares the title without lower-casing it
delete_event_title_case_sensitive(event_data) ==
  LET given == IF event_data.summary.has THEN event_data.summary.text ELSE <<>>
  IN  IF given # <<>> /\ (\/ Contains(given, KwAllEvents)
                          \/ Contains(given, KwAllMyEvents))
      THEN <<>> ELSE given

\* event_title after the bulk-deletion rule
delete_event_title(event_data) ==
  LET given == IF event_data.summary.has THEN event_data.summary.text ELSE <<>>
  IN  IF given # <<>> /\ (\/ Contains(Lower(given), KwAllEvents)
                          \/ Contains(Lower(given), KwAllMyEvents))
      THEN <<>> ELSE given

\* a variant that gives delete the one-hour default of create
delete_default_end_one_hour(start_time, host) ==
  isoformat(astimezone(PlusSeconds(fromisoformat(start_time), HourSecs), IST, host))

\* end_time when only start_time is known: one day after the start
delete_default_end(start_time, host) ==
  isoformat(astimezone(PlusSeconds(fromisoformat(start_time), DaySecs), IST, host))

\* a variant that walks the list from its end
delete_loop_reversed(events, failAt) ==
  LET issued == IF failAt \in 1..Len(events) THEN failAt ELSE Len(events)
  IN  [i \in 1..issued |-> DeleteCall(events[Len(events) + 1 - i], i # failAt)]

\* a variant that catches the failure inside the loop and goes on
delete_loop_resuming(events, failAt) ==
  [i \in 1..Len(events) |-> DeleteCall(events[i], i # failAt)]

\* the delete calls of "for event in events": the loop ends at the first
\* call that raises
delete_loop(events, failAt) ==
  LET issued == IF failAt \in 1..Len(events) THEN failAt ELSE Len(events)
  IN  [i \in 1..issued |-> DeleteCall(events[i], i # failAt)]

delete_event(event_data, host, utcNow, ans) ==
  LET event_title == delete_event_title(event_data)
      today == TodayIST(utcNow)
      start_time ==
        IF ~TimeTruthy(event_data.start_time)
        THEN isoformat(astimezone(combine(today, 0, 0), IST, host))
        ELSE event_data.start_time
      end_time1 ==
        IF ~TimeTruthy(event_data.start_time)
        THEN isoformat(astimezone(combine(today, MaxTimeSec, MaxTimeMicro), IST, host))
        ELSE event_data.end_time
  IN  IF ~TimeTruthy(end_time1) /\ ~Parses(start_time) THEN Throws
      ELSE
        LET end_time ==
              IF ~TimeTruthy(end_time1)
              THEN delete_default_end(start_time, host)
              ELSE end_time1
            query == ListCall(start_time, end_time,
                              IF event_title # <<>> THEN Str(event_title) ELSE NoStr,
                              FALSE, 0, ans.listOk)
            events == ans.items
            n == Len(events)
            fails == ans.failAt \in 1..n
            deletes == delete_loop(events, ans.failAt)
        IN  IF ~ans.listOk
            THEN Outcome(<<query>>, <<Say("error", "delete_failed")>>, FALSE, <<>>)
            ELSE IF events # <<>>
            THEN IF fails
                 THEN Outcome(<<query>> \o deletes, <<Say("error", "delete_failed")>>,
                              FALSE, events)
                 ELSE Outcome(<<query>> \o deletes,
                              <<Report("success", "deleted", n, <<>>, <<>>)>>,
                              FALSE, events)
            ELSE Outcome(<<query>>, <<Say("info", "none_to_delete")>>, FALSE, <<>>)

\* a variant that never puts the original time of day back
reschedule_times_verbatim(event_data, orig_start, orig_end) ==
  LET parsed == fromisoformat(event_data.new_start_time)
  IN  [start |-> event_data.new_start_time,
       end |-> isoformat(PlusSeconds(parsed, Minus(orig_end, orig_start)))]

\* a variant that keeps the new_end_time of the Intent when there is one
reschedule_times_supplied_end(event_data, orig_start, orig_end) ==
  LET parsed == fromisoformat(event_data.new_start_time)
      dateOnly == parsed.sec \div HourSecs = 0 /\ (parsed.sec % HourSecs) \div 60 = 0
      new_start ==
        IF dateOnly
        THEN replace_tzinfo(combine(parsed.day, orig_start.sec, orig_start.us),
                            orig_start.off)
        ELSE parsed
  IN  [start |-> IF dateOnly THEN isoformat(new_start) ELSE event_data.new_start_time,
       end |-> IF TimeTruthy(event_data.new_end_time) THEN event_data.new_end_time
               ELSE isoformat(PlusSeconds(new_start, Minus(orig_end, orig_start)))]

\* the start.dateTime / end.dateTime written into the event
reschedule_times(event_data, orig_start, orig_end) ==
  LET orig_duration == Minus(orig_end, orig_start)
      parsed == fromisoformat(event_data.new_start_time)
      hour == parsed.sec \div HourSecs
      minute == (parsed.sec % HourSecs) \div 60
      dateOnly == hour = 0 /\ minute = 0
      new_start ==
        IF dateOnly
        THEN replace_tzinfo(combine(parsed.day, orig_start.sec, orig_start.us),
                            orig_start.off)
        ELSE parsed
      new_start_time == IF dateOnly THEN isoformat(new_start)
                        ELSE event_data.new_start_time
      new_end_time == isoformat(PlusSeconds(new_start, orig_duration))
  IN  [start |-> new_start_time, end |-> new_end_time]

\* a variant that builds the body afresh, the way create_event does
reschedule_body_rebuilt(event, times) ==
  [NewEventBody(event.summary, times.start, times.end, Str(DefaultDescription))
     EXCEPT !.id = event.id]

\* event["start"]["dateTime"] = ...; event["end"]["dateTime"] = ...
reschedule_body(event, times) ==
  [event EXCEPT !.start = times.start, !.end = times.end]

\* a variant that takes a missing new_start_time for a bare date
new_start_parses_or_absent(new_start_time) ==
  Parses(new_start_time) \/ ~TimeTruthy(new_start_time)

\* datetime.fromisoformat(new_start_time) returns rather than raises
new_start_parses(new_start_time) == Parses(new_start_time)

reschedule_event(event_data, ans) ==
  LET event_title == event_data.summary
      new_start_time == event_data.new_start_time
      query == ListCall(NoTime, NoTime, Str(event_title.text), FALSE, 1, ans.listOk)
      \* maxResults=1: the service returns at most one event
      events == IF ans.items = <<>> THEN <<>> ELSE <<ans.items[1]>>
      failed == Outcome(<<query>>, <<Say("error", "reschedule_failed")>>, FALSE, events)
  IN  IF ~Truthy(event_title) THEN Only(Say("warning", "need_title"))
      ELSE IF ~ans.listOk
      THEN Outcome(<<query>>, <<Say("error", "reschedule_failed")>>, FALSE, <<>>)
      ELSE IF events = <<>>
      THEN Outcome(<<query>>,
                   <<Report("info", "none_to_reschedule", 0, <<>>, event_title.text)>>,
                   FALSE, <<>>)
      ELSE
        LET event == RemoteEvent(events[1])
            event_id == event.id
        IN  IF ~Parses(event.start) \/ ~Parses(event.end) THEN failed    \* KeyError
            ELSE
              LET orig_start == fromisoformat(event.start)
                  orig_end == fromisoformat(event.end)
              IN  IF ~CanSubtract(orig_end, orig_start) THEN failed      \* TypeError
                  ELSE IF ~new_start_parses(new_start_time) THEN failed  \* Type/ValueError
                  ELSE
                    LET times == reschedule_times(event_data, orig_start, orig_end)
                        body == reschedule_body(event, times)
                        update == UpdateCall(event_id, body, ans.writeOk)
                    IN  IF ans.writeOk
                        THEN Outcome(<<query, update>>,
                                     <<Report("success", "rescheduled", 0, <<>>,
                                              event_title.text)>>,
                                     FALSE, events)
                        ELSE Outcome(<<query, update>>,
                                     <<Say("error", "reschedule_failed")>>, FALSE, events)

\* a variant without the try: the handler's exception leaves the dispatcher
try_handler_uncaught(ran) == ran

\* try: handler(event_data) / except Exception: st.error(...)
try_handler(ran) ==
  IF ran.raised
  THEN Outcome(ran.calls, ran.reports \o <<Say("error", "dispatch_error")>>,
               FALSE, ran.listed)
  ELSE ran

\* a variant that looks the handler up with action_handlers[action]: KeyError
unsupported_action_key_error == Throws

\* action_handlers.get(action, lambda _: st.warning("Unsupported action: ..."))
unsupported_action == Only(Say("warning", "unsupported"))

\* a variant that lets the dispatch go on when only one of the two is there
authenticated_either(service, calendar_id) == service \/ calendar_id

\* "if not service or not calendar_id" does not fire
authenticated(service, calendar_id) == service /\ calendar_id

\* handle_calendar_action(params); service / calendar_id are what
\* get_calendar_service() / get_calendar_id() returned (TRUE = a value)
handle_calendar_action(params, service, calendar_id, host, utcNow, ans) ==
  IF params.shape = "number" THEN Throws              \* "action" not in 5
  ELSE IF params.shape # "dict" \/ ~params.hasAction
  THEN Only(Say("warning", "invalid_action"))
  ELSE IF ~authenticated(service, calendar_id) THEN Only(Say("error", "auth"))
  ELSE
    LET action == params.action
        event_data == params.event
    IN  try_handler(
          CASE action = "message" -> handle_message(event_data)
            [] action = "error" -> handle_error(event_data)
            [] action = "find" -> find_events(event_data, host, ans)
            [] action = "create" -> create_event(event_data, ans)
            [] action = "delete" -> delete_event(event_data, host, utcNow, ans)
            [] action = "reschedule" -> reschedule_event(event_data, ans)
            [] OTHER -> unsupported_action)

\* ------------------------------------------------------------------ inputs
\* Titles the model can put in "summary"
TitleAllEvents == KwAllEvents
TitleAllMyEvents == <<"A","L","L"," ","M","y"," ","E","V","E","N","T","S">>
TitleSmallEvents == <<"s","m","a","l","l"," ","e","v","e","n","t","s">>
TitleAllEvent == <<"a","l","l"," ","e","v","e","n","t">>

\* ISO strings the model can put in the time fields
T0900 == Iso(1, 9 * HourSecs, 0, IST, "T")             \* day 1 09:00:00+05:30
T2000West == Iso(1, 20 * HourSecs, 0, -300, "T")       \* day 1 20:00:00-05:00
T1030Naive == Iso(1, 10 * HourSecs + 1800, 0, NoOffset, "T")
T1030Space == Iso(MaxDay, 10 * HourSecs + 1800, 0, IST, "sp")
TMidnight == Iso(MaxDay, 0, 0, IST, "T")               \* 00:00:00+05:30
THalfMinute == Iso(MaxDay, 30, 0, IST, "T")            \* 00:00:30+05:30
TDateOnly == Iso(MaxDay, 0, 0, NoOffset, "date")       \* a bare date
T1800 == Iso(MaxDay, 18 * HourSecs, 0, IST, "T")

DeleteArgs ==
  { Intent("delete", Event(s, a, b, NoTime, NoTime)) :
      s \in {NoStr, Str(<<>>), Str(TitleStandup), Str(TitleAllEvents),
             Str(TitleAllMyEvents), Str(TitleSmallEvents), Str(TitleAllEvent)},
      a \in {NoTime, T0900, T2000West, T1030Naive, BadTime},
      b \in {NoTime, T1800} }
CreateArgs ==
  { Intent("create", Event(s, a, b, NoTime, NoTime)) :
      s \in {NoStr, Str(<<>>), Str(TitleStandup)},
      a \in {NoTime, T0900, T1030Naive, BadTime},
      b \in {NoTime, T1800} }
FindArgs ==
  { Intent("find", Event(NoStr, a, b, NoTime, NoTime)) :
      a \in {NoTime, T0900, T2000West, T1030Naive, BadTime},
      b \in {NoTime, T1800, BadTime} }
RescheduleArgs ==
  { Intent("reschedule", Event(s, NoTime, NoTime, a, b)) :
      s \in {NoStr, Str(TitleStandup)},
      a \in {NoTime, TMidnight, THalfMinute, T1030Space, T1030Naive, TDateOnly,
             T0900, BadTime},
      b \in {NoTime, T1800} }
TextHello == <<"h","i">>
TextPadded == <<" ","h","i"," ">>
TextBlank == <<" "," ">>

\* an event object that carries a "content" of its own
ContentEvent(text) == [EmptyEvent EXCEPT !.content = Str(text)]

OtherArgs ==
  { Intent("archive", EmptyEvent),
    Intent("Delete", EmptyEvent),
    Intent("message", EmptyEvent),
    Intent("message", ContentEvent(TextPadded)),
    Intent("error", ContentEvent(TextHello)),
    Params("dict", FALSE, "", NoStr, Event(Str(TitleStandup), T0900, NoTime, NoTime, NoTime)),
    Params("none", FALSE, "", NoStr, EmptyEvent),
    Params("list", FALSE, "", NoStr, EmptyEvent),
    Params("number", FALSE, "", NoStr, EmptyEvent) }

\* every value the arguments string of a tool call can decode to
Args == DeleteArgs \cup CreateArgs \cup FindArgs \cup RescheduleArgs \cup OtherArgs

ToolResponse(args) == Response("ok", "object", "one", "args", args, TRUE, TRUE, <<>>)
PlainResponse(hasContent, contentNull, content) ==
  Response("ok", "object", "one", "none", NoParams, hasContent, contentNull, content)

Responses ==
  { ToolResponse(a) : a \in Args } \cup
  { PlainResponse(TRUE, FALSE, c) : c \in {TextHello, TextPadded, TextBlank, <<>>} } \cup
  { PlainResponse(FALSE, FALSE, <<>>), PlainResponse(TRUE, TRUE, <<>>) } \cup
  { Response(t, "object", "one", "none", NoParams, TRUE, FALSE, TextHello) :
      t \in {"conn", "http"} } \cup
  { Response("ok", b, "one", "none", NoParams, TRUE, FALSE, TextHello) :
      b \in {"notjson", "array"} } \cup
  { Response("ok", "object", c, "none", NoParams, TRUE, FALSE, TextHello) :
      c \in {"absent", "empty"} } \cup
  { Response("ok", "object", "one", k, NoParams, TRUE, TRUE, <<>>) :
      k \in {"notype", "other", "badargs"} }
NoResponse == PlainResponse(FALSE, FALSE, <<>>)

\* sequences of distinct ids drawn from S, in any order
RECURSIVE Orderings(_)
Orderings(S) ==
  IF S = {} THEN {<<>>}
  ELSE UNION { { <<x>> \o t : t \in Orderings(S \ {x}) } : x \in S }
ListResults(S) == UNION { Orderings(T) : T \in SUBSET S }

\* host offsets: a UTC server, a machine set to IST
HostOffsets == {0, IST}
\* clock readings: day 0 20:00 UTC (already day 1 in IST), day 1 06:00 UTC
Clocks == {20 * HourSecs, DaySecs + 6 * HourSecs}

\* ------------------------------------------------------------ state machine
VARIABLES
  google_credentials,  \* st.session_state has 'google_credentials'
  calendar_id,         \* st.session_state has 'calendar_id'
  host,                \* the host machine's local UTC offset, minutes
  utcNow,              \* the clock, seconds
  calendar,            \* ids of the events the remote calendar holds
  pc,                  \* "idle" | "extracted" | "done": place in the button handler
  response,            \* what the model endpoint answered
  params,              \* what call_azure_openai returned
  parsed,              \* parse_azure_response raised (when it was called)
  service,             \* get_calendar_service() returned a handle
  calls,               \* events() calls of this dispatch, in order
  reports,             \* status reports of this dispatch, in order
  listed,              \* event ids the list query of this dispatch returned
  escaped              \* an exception left handle_calendar_action

vars == <<google_credentials, calendar_id, host, utcNow, calendar, pc, response,
          params, parsed, service, calls, reports, listed, escaped>>

session == <<google_credentials, calendar_id>>
world == <<host, utcNow>>
run == <<response, params, parsed, service, calls, reports, listed, escaped>>

Init ==
  /\ google_credentials = FALSE
  /\ calendar_id = FALSE
  /\ host \in HostOffsets
  /\ utcNow \in Clocks
  /\ calendar \in SUBSET EventIds
  /\ pc = "idle"
  /\ response = NoResponse
  /\ params = NoParams
  /\ parsed = FALSE
  /\ service = FALSE
  /\ calls = <<>>
  /\ reports = <<>>
  /\ listed = <<>>
  /\ escaped = FALSE

\* handle_oauth_callback: the credentials are stored; the calendar id only
\* when the calendar list has a primary calendar
Login(primaryFound) ==
  /\ pc = "idle"
  /\ ~google_credentials
  /\ google_credentials' = TRUE
  /\ calendar_id' = primaryFound
  /\ UNCHANGED <<world, calendar, pc, run>>

Logout ==
  /\ pc = "idle"
  /\ google_credentials
  /\ google_credentials' = FALSE
  /\ calendar_id' = FALSE
  /\ UNCHANGED <<world, calendar, pc, run>>

\* "Process Request": call_azure_openai(user_input)
Extract(r) ==
  /\ pc = "idle"
  /\ google_credentials
  /\ response' = r
  /\ parsed' = (r.transport = "ok" /\ parse_azure_response(r).raised)
  /\ params' = call_azure_openai(r)
  /\ pc' = "extracted"
  /\ UNCHANGED <<session, world, calendar, service, calls, reports, listed, escaped>>

\* handle_calendar_action(response)
Dispatch(probeOk, ans) ==
  /\ pc = "extracted"
  /\ \E out \in {handle_calendar_action(params, probeOk, calendar_id, host, utcNow, ans)} :
        /\ service' = probeOk
        /\ calls' = out.calls
        /\ reports' = out.reports
        /\ listed' = out.listed
        /\ escaped' = out.raised
        /\ calendar' = AfterCalls(calendar, out.calls)
  /\ pc' = "done"
  /\ UNCHANGED <<session, world, response, params, parsed>>

\* st.rerun(): the script starts over, the status area is empty again
Rerun ==
  /\ pc = "done"
  /\ pc' = "idle"
  /\ response' = NoResponse
  /\ params' = NoParams
  /\ parsed' = FALSE
  /\ service' = FALSE
  /\ calls' = <<>>
  /\ reports' = <<>>
  /\ listed' = <<>>
  /\ escaped' = FALSE
  /\ UNCHANGED <<session, world, calendar>>

Next ==
  \/ \E primaryFound \in BOOLEAN : Login(primaryFound)
  \/ Logout
  \/ \E r \in Responses : Extract(r)
  \/ Dispatch(FALSE, NoAnswers)
  \/ \E writeOk \in BOOLEAN : Dispatch(TRUE, Answers(FALSE, <<>>, 0, writeOk))
  \/ \E items \in ListResults(calendar), writeOk \in BOOLEAN :
        \E failAt \in 0..Len(items) :
           Dispatch(TRUE, Answers(TRUE, items, failAt, writeOk))
  \/ Rerun

Spec == Init /\ [][Next]_vars

\* ------------------------------------------------------------- properties
\* the dispatch of an Intent with action a is over, authentication was there
Ran(a) ==
  /\ pc = "done"
  /\ params.shape = "dict" /\ params.hasAction /\ params.action = a
  /\ service /\ calendar_id

\* positions in calls of the calls of one operation
CallsOf(op) == { i \in 1..Len(calls) : calls[i].op = op }

ClosedActions == {"create", "find", "delete", "reschedule", "message", "error"}

\* C1: an Intent that has an action, dispatched while the calendar service or
\* the calendar id is absent, yields exactly the authentication error: no
\* handler output, no events() call, no exception.
DispatchWithoutAuthentication ==
  (pc = "done" /\ params.shape = "dict" /\ params.hasAction
     /\ (~service \/ ~calendar_id))
  => /\ reports = <<Say("error", "auth")>>
     /\ calls = <<>>
     /\ listed = <<>>
     /\ ~escaped

\* a delete Intent was dispatched with a service handle but no calendar id
UnauthenticatedDeleteReached ==
  /\ pc = "done" /\ params.hasAction /\ params.action = "delete"
  /\ service /\ ~calendar_id
  /\ reports = <<Say("error", "auth")>>

\* C2: whatever the endpoint answers, extraction raises nothing and returns
\* an Intent whose action is present and one of create, find, delete,
\* reschedule, message, error.
ExtractionReturnsClosedAction ==
  pc = "extracted" =>
     /\ ~parsed
     /\ params.shape = "dict"
     /\ params.hasAction
     /\ params.action \in ClosedActions

\* C3: when the k-th delete call fails, the calls of the dispatch are the
\* list query, k-1 successful deletes of the first k-1 listed events and the
\* failed one; those k-1 events are gone from the calendar, the events from
\* the k-th on are still there, and the only report is the error.
PartialBulkDeleteNotRolledBack ==
  (Ran("delete") /\ (\E i \in CallsOf("delete") : ~calls[i].ok))
  => \E k \in 1..Len(listed) :
        /\ Len(calls) = k + 1
        /\ calls[1].op = "list"
        /\ \A j \in 1..(k - 1) : calls[j + 1] = DeleteCall(listed[j], TRUE)
        /\ calls[k + 1] = DeleteCall(listed[k], FALSE)
        /\ \A j \in 1..(k - 1) : listed[j] \notin calendar
        /\ \A j \in k..Len(listed) : listed[j] \in calendar
        /\ reports = <<Say("error", "delete_failed")>>

\* three events were listed and the second delete call failed
SecondOfThreeDeletesFailed ==
  /\ Ran("delete")
  /\ Len(listed) = 3
  /\ Len(calls) = 3
  /\ calls[2].op = "delete" /\ calls[2].ok
  /\ calls[3].op = "delete" /\ ~calls[3].ok

\* C4: the list query of delete carries no title filter when the summary is
\* absent, empty, or contains "all events" / "all my events" in any letter
\* case; otherwise its title filter is the summary.
DeleteBulkSentinel ==
  (Ran("delete") /\ calls # <<>>)
  => LET summary == params.event.summary
         low == Lower(summary.text)
         bulk == \/ ~Truthy(summary)
                 \/ Contains(low, KwAllEvents)
                 \/ Contains(low, KwAllMyEvents)
     IN  /\ calls[1].op = "list"
         /\ IF bulk THEN calls[1].q = NoStr ELSE calls[1].q = Str(summary.text)

\* "ALL My EVENTS" was sent to delete and the list query has no title filter
MixedCaseBulkDeleteReached ==
  /\ Ran("delete")
  /\ params.event.summary = Str(TitleAllMyEvents)
  /\ calls # <<>> /\ calls[1].op = "list" /\ ~calls[1].q.has

\* C5: a delete Intent without start_time queries the reference day in the
\* working timezone, 00:00:00 to 23:59:59 at +05:30, whatever the host's
\* local timezone and whether or not an end_time came with it.
DeleteDefaultWindow ==
  (Ran("delete") /\ ~TimeTruthy(params.event.start_time) /\ calls # <<>>)
  => LET today == TodayIST(utcNow)
         q == calls[1]
     IN  /\ q.op = "list"
         /\ q.timeMin.kind = "ts" /\ q.timeMax.kind = "ts"
         /\ q.timeMin.day = today /\ q.timeMin.sec = 0 /\ q.timeMin.off = IST
         /\ q.timeMax.day = today /\ q.timeMax.sec = MaxTimeSec /\ q.timeMax.off = IST

\* C6: with start_time present and end_time absent, delete queries from the
\* start to one day after it and create inserts an event that ends one hour
\* after its start; with end_time present both pass it on unchanged.  The
\* start is passed on unchanged in all four cases.  (For delete the one-day
\* rule is stated for a start_time that carries an offset, as the Intent
\* schema requires.)
DefaultEndTimeAsymmetry ==
  /\ (Ran("delete") /\ calls # <<>> /\ TimeTruthy(params.event.start_time))
     => LET q == calls[1]
            start == params.event.start_time
            end == params.event.end_time
        IN  /\ q.op = "list"
            /\ q.timeMin = start
            /\ TimeTruthy(end) => q.timeMax = end
            /\ (~TimeTruthy(end) /\ start.off # NoOffset)
               => /\ Parses(q.timeMax)
                  /\ q.timeMax.off # NoOffset
                  /\ Minus(q.timeMax, start) = DaySecs
  /\ (Ran("create") /\ calls # <<>>)
     => LET b == calls[1].body
            start == params.event.start_time
            end == params.event.end_time
        IN  /\ calls[1].op = "insert"
            /\ b.start = start
            /\ TimeTruthy(end) => b.end = end
            /\ ~TimeTruthy(end)
               => /\ Parses(b.end)
                  /\ b.end.off = start.off
                  /\ Minus(b.end, start) = HourSecs

\* delete got 20:00:00-05:00 and no end_time; the query ends a day later
DeleteStartOnlyReached ==
  /\ Ran("delete")
  /\ params.event.start_time = T2000West
  /\ ~TimeTruthy(params.event.end_time)
  /\ calls # <<>> /\ Minus(calls[1].timeMax, T2000West) = DaySecs

\* C7: a missing or empty required field (create: summary or start_time;
\* find: start_time; reschedule: summary) yields one warning and no call;
\* the create warning names exactly the missing fields.
ValidationShortCircuit ==
  LET e == params.event
      named == IF reports = <<>> THEN {}
               ELSE { reports[1].fields[i] : i \in 1..Len(reports[1].fields) }
      expected == (IF ~TimeTruthy(e.start_time) THEN {"start_time"} ELSE {}) \cup
                  (IF ~Truthy(e.summary) THEN {"summary"} ELSE {})
  IN  /\ (Ran("create") /\ (~Truthy(e.summary) \/ ~TimeTruthy(e.start_time)))
         => /\ calls = <<>>
            /\ Len(reports) = 1
            /\ reports[1].level = "warning" /\ reports[1].kind = "missing_fields"
            /\ named = expected
      /\ (Ran("find") /\ ~TimeTruthy(e.start_time))
         => /\ calls = <<>>
            /\ reports = <<Say("warning", "need_start")>>
      /\ (Ran("reschedule") /\ ~Truthy(e.summary))
         => /\ calls = <<>>
            /\ reports = <<Say("warning", "need_title")>>

\* create had a summary but no start_time; the warning names start_time only
CreateWithoutStartReached ==
  /\ Ran("create")
  /\ Truthy(params.event.summary)
  /\ ~TimeTruthy(params.event.start_time)
  /\ Len(reports) = 1 /\ reports[1].fields = <<"start_time">>
  /\ calls = <<>>

\* C8: when new_start_time reads 00:00:00, the start written by the update
\* call has the date of new_start_time and the time of day of the original
\* event's start.
RescheduleDateOnlyPreservesTime ==
  (Ran("reschedule") /\ CallsOf("update") # {}
     /\ params.event.new_start_time.sec = 0 /\ params.event.new_start_time.us = 0)
  => \A i \in CallsOf("update") :
        LET written == calls[i].body.start
            orig == RemoteEvent(listed[1]).start
        IN  /\ Parses(written)
            /\ written.day = params.event.new_start_time.day
            /\ written.sec = orig.sec
            /\ written.us = orig.us

\* event 3 (09:30:15-05:00) was moved to midnight of another day
DateOnlyRescheduleReached ==
  /\ Ran("reschedule")
  /\ params.event.new_start_time = TMidnight
  /\ listed = <<3>>
  /\ \E i \in CallsOf("update") :
        calls[i].body.start = Iso(MaxDay, 9 * HourSecs + 1815, 0, -300, "T")

\* C9: when the clock time of new_start_time is not 00:00:00, the start
\* written by the update call is new_start_time itself.
RescheduleExplicitTimePassthrough ==
  (Ran("reschedule") /\ CallsOf("update") # {}
     /\ (params.event.new_start_time.sec # 0 \/ params.event.new_start_time.us # 0))
  => \A i \in CallsOf("update") :
        calls[i].body.start = params.event.new_start_time

\* C10: in every update call of reschedule, written end minus written start
\* is the original event's end minus its start.
RescheduleDurationPreserved ==
  Ran("reschedule")
  => \A i \in CallsOf("update") :
        LET b == calls[i].body
            orig == RemoteEvent(listed[1])
        IN  /\ Parses(b.start) /\ Parses(b.end)
            /\ CanSubtract(b.end, b.start)
            /\ Minus(b.end, b.start) = Minus(orig.end, orig.start)

\* an update was issued for an Intent that carried its own new_end_time
RescheduleWithSuppliedEndReached ==
  /\ Ran("reschedule")
  /\ params.event.new_start_time = T1030Space
  /\ params.event.new_end_time = T1800
  /\ CallsOf("update") # {}

\* C11: with authentication present, {action: "message", content: c} with a
\* non-blank c is reported as an info status carrying c, and {action:
\* "error", content: d} as an error status carrying d; neither issues a call.
MessageAndErrorDisplayed ==
  /\ (Ran("message") /\ params.content.has /\ Strip(params.content.text) # <<>>)
     => /\ Len(reports) = 1
        /\ reports[1].level = "info"
        /\ reports[1].text \in {params.content.text, Strip(params.content.text)}
        /\ calls = <<>>
  /\ (Ran("error") /\ params.content.has)
     => /\ Len(reports) = 1
        /\ reports[1].level = "error"
        /\ reports[1].text = params.content.text
        /\ calls = <<>>

\* C12: when the answer carries no tool-call payload and its text content is
\* missing, empty or only blanks, the Intent returned is {action: "message"}
\* with the placeholder as content; a message Intent built from the text
\* content never has an empty content.
FallbackNonEmptiness ==
  (pc = "extracted" /\ response.transport = "ok" /\ response.body = "object"
     /\ response.choices # "empty" /\ response.tool \in {"none", "other"})
  => LET textual == response.choices = "one" /\ response.hasContent
         blank == ~textual \/ (~response.contentNull /\ Strip(response.content) = <<>>)
     IN  /\ blank => (~parsed /\ params = ContentIntent("message", PlaceholderText))
         /\ (~parsed /\ params.action = "message")
            => /\ params.content.has
               /\ params.content.text # <<>>
               /\ PlaceholderText # <<>>

\* the answer was plain text made of blanks only
BlankReplyReached ==
  /\ pc = "extracted"
  /\ response = PlainResponse(TRUE, FALSE, TextBlank)
  /\ params.action = "message"
  /\ params.content = Str(PlaceholderText)

\* the Intent dispatched makes its handler raise: fromisoformat is called on
\* a string it rejects, outside the handler's own try
RaisingIntent ==
  LET e == params.event
  IN  \/ /\ params.action = "find"
         /\ TimeTruthy(e.start_time)
         /\ (~Parses(e.start_time) \/ (TimeTruthy(e.end_time) /\ ~Parses(e.end_time)))
      \/ /\ params.action = "create"
         /\ Truthy(e.summary) /\ TimeTruthy(e.start_time)
         /\ ~TimeTruthy(e.end_time) /\ ~Parses(e.start_time)
      \/ /\ params.action = "delete"
         /\ TimeTruthy(e.start_time)
         /\ ~TimeTruthy(e.end_time) /\ ~Parses(e.start_time)

\* a dispatch with authentication is over in which the handler raised or a
\* calendar-service call failed
FailedDispatch ==
  /\ pc = "done"
  /\ params.shape = "dict" /\ params.hasAction
  /\ service /\ calendar_id
  /\ (RaisingIntent \/ \E i \in 1..Len(calls) : ~calls[i].ok)

\* C13: when the handler raises or a calendar-service call fails, the
\* dispatcher returns normally and its last report is an error; the step
\* after it leaves the session and the clock as they were and every trace of
\* the request gone, so the next Intent starts from the state it would have
\* started from anyway.
HandlerFailuresNeverEscape ==
  /\ [](FailedDispatch
          => /\ ~escaped
             /\ reports # <<>>
             /\ reports[Len(reports)].level = "error")
  /\ [][FailedDispatch
          => /\ pc' = "idle"
             /\ session' = session
             /\ world' = world
             /\ response' = NoResponse /\ params' = NoParams /\ ~parsed'
             /\ calls' = <<>> /\ reports' = <<>> /\ listed' = <<>> /\ ~escaped']_vars

\* find was given a start_time that is no ISO string; the exception was
\* caught at the dispatcher
RaisingFindReached ==
  /\ Ran("find")
  /\ params.event.start_time = BadTime
  /\ reports = <<Say("error", "dispatch_error")>>
  /\ ~escaped

\* C14: with authentication present, an action outside message, error, find,
\* create, delete, reschedule yields the "unsupported action" warning and
\* nothing else: no call, no exception.
UnknownActionWarned ==
  (pc = "done" /\ params.shape = "dict" /\ params.hasAction
     /\ service /\ calendar_id /\ params.action \notin ClosedActions)
  => /\ reports = <<Say("warning", "unsupported")>>
     /\ calls = <<>>
     /\ listed = <<>>
     /\ ~escaped

\* "archive" was dispatched with authentication present
ArchiveDispatched ==
  /\ Ran("archive")
  /\ reports = <<Say("warning", "unsupported")>>

\* C15: when the list query of delete returns n >= 1 events and no delete
\* call fails, the calls after the query are n deletes, the j-th for the
\* j-th listed id, the report is the success with count n and the listed
\* events are gone; when it returns none, the query is the only call and
\* the report is "no matching events".
CompleteBulkDelete ==
  (Ran("delete") /\ calls # <<>> /\ calls[1].ok
     /\ \A i \in CallsOf("delete") : calls[i].ok)
  => LET n == Len(listed)
     IN  /\ calls[1].op = "list"
         /\ Len(calls) = n + 1
         /\ \A j \in 1..n : calls[j + 1] = DeleteCall(listed[j], TRUE)
         /\ \A j \in 1..n : listed[j] \notin calendar
         /\ n >= 1 => reports = <<Report("success", "deleted", n, <<>>, <<>>)>>
         /\ n = 0 => reports = <<Say("info", "none_to_delete")>>

\* the query returned events 3, 1, 2 in that order and all three were deleted
ThreeDeletedInListOrder ==
  /\ Ran("delete")
  /\ listed = <<3, 1, 2>>
  /\ reports = <<Report("success", "deleted", 3, <<>>, <<>>)>>
  /\ calendar = {}

\* C16: reschedule issues at most one update call; it is for the id of the
\* first event the title lookup returned, and its body is that event's
\* record with nothing but start.dateTime and end.dateTime changed.
RescheduleFrame ==
  Ran("reschedule")
  => /\ Cardinality(CallsOf("update")) <= 1
     /\ \A i \in CallsOf("update") :
           LET orig == RemoteEvent(listed[1])
               b == calls[i].body
           IN  /\ calls[1].op = "list" /\ calls[1].maxResults = 1
               /\ calls[i].eventId = orig.id
               /\ b.id = orig.id
               /\ b.summary = orig.summary
               /\ b.description = orig.description
               /\ b.location = orig.location
               /\ b.startTz = orig.startTz
               /\ b.endTz = orig.endTz

\* event 1 was moved to 09:00 and the update carries its location
RescheduleOfFirstEventReached ==
  /\ Ran("reschedule")
  /\ params.event.new_start_time = T0900
  /\ listed = <<1>>
  /\ \E i \in CallsOf("update") :
        /\ calls[i].eventId = 1
        /\ calls[i].body.location = Str(LocationRoom)
        /\ calls[i].body.start = T0900

\* C17: reschedule issues at most one update call, and none when the title
\* lookup returns no event (the only report is the "no matching event"
\* notice) or when new_start_time is absent or the matched event has no
\* start/end dateTime (the only report is an error).
NoUpdateWithoutTarget ==
  Ran("reschedule")
  => /\ Cardinality(CallsOf("update")) <= 1
     /\ (calls # <<>> /\ calls[1].ok /\ listed = <<>>)
        => /\ CallsOf("update") = {}
           /\ reports = <<Report("info", "none_to_reschedule", 0, <<>>,
                                 params.event.summary.text)>>
     /\ (listed # <<>> /\ ( \/ ~TimeTruthy(params.event.new_start_time)
                            \/ ~TimeTruthy(RemoteEvent(listed[1]).start)
                            \/ ~TimeTruthy(RemoteEvent(listed[1]).end) ))
        => /\ CallsOf("update") = {}
           /\ reports = <<Say("error", "reschedule_failed")>>
           /\ ~escaped

\* a timed event was matched but the Intent carries no new_start_time
RescheduleWithoutNewStartReached ==
  /\ Ran("reschedule")
  /\ listed = <<1>>
  /\ ~TimeTruthy(params.event.new_start_time)
  /\ CallsOf("update") = {}
  /\ reports = <<Say("error", "reschedule_failed")>>

\* C18: every timestamp that find, create, delete or reschedule passes to a
\* list, insert or update call, supplied by the Intent or derived by a
\* default rule, carries an explicit UTC offset.
ExplicitOffsetOnEveryCall ==
  (pc = "done" /\ params.shape = "dict" /\ params.hasAction
     /\ params.action \in {"find", "create", "delete", "reschedule"})
  => \A i \in 1..Len(calls) :
        /\ calls[i].op = "list"
           => /\ TimeTruthy(calls[i].timeMin) => calls[i].timeMin.off # NoOffset
              /\ TimeTruthy(calls[i].timeMax) => calls[i].timeMax.off # NoOffset
        /\ calls[i].op \in {"insert", "update"}
           => /\ calls[i].body.start.kind = "ts"
              /\ calls[i].body.start.off # NoOffset
              /\ calls[i].body.end.kind = "ts"
              /\ calls[i].body.end.off # NoOffset

\* C19: a find Intent with a start_time and no end_time issues exactly one
\* call, a list query whose timeMin and timeMax are one and the same
\* timestamp at offset +05:30: the instant of start_time when start_time
\* names its offset.
FindDegenerateWindow ==
  (Ran("find") /\ Parses(params.event.start_time)
     /\ ~TimeTruthy(params.event.end_time))
  => /\ Len(calls) = 1
     /\ calls[1].op = "list"
     /\ Parses(calls[1].timeMin)
     /\ calls[1].timeMax = calls[1].timeMin
     /\ calls[1].timeMin.off = IST
     /\ params.event.start_time.off # NoOffset
        => Minus(fromisoformat(calls[1].timeMin),
                 fromisoformat(params.event.start_time)) = 0
     /\ CallsOf("insert") \cup CallsOf("update") \cup CallsOf("delete") = {}

\* 20:00 -05:00 with no end_time was looked up as 06:30 +05:30 the day after
FindStartOnlyReached ==
  /\ Ran("find")
  /\ params.event.start_time = T2000West
  /\ ~TimeTruthy(params.event.end_time)
  /\ Len(calls) = 1
  /\ calls[1].timeMin = Iso(2, 6 * HourSecs + 1800, 0, IST, "T")
  /\ calls[1].timeMax = calls[1].timeMin
====
